---------------------------- MODULE Spec2Model ----------------------------
(***************************************************************************)
(* A model of the jewish.date library (src/jewish/date.py) and of its      *)
(* exception-free twin src/jcal.py: the molad accumulator, the metonic     *)
(* cycle arithmetic, the dehiyyot (year start postponement) rules, the     *)
(* nearby-molad search and the two converters JewishDate.to_sdn and        *)
(* JewishDate.from_sdn.                                                    *)
(*                                                                         *)
(* A behaviour is one chain of library calls: a date is constructed and    *)
(* converted, or a serial day number is parsed and converted back.         *)
(*                                                                         *)
(* Python integers are unbounded.  Every quantity of the model stays below *)
(* 2^31 except the product HALAKIM_PER_METONIC_CYCLE * metonicCycle, which *)
(* AddHalakimTimes normalises without forming it (see there).              *)
(***************************************************************************)
EXTENDS Integers, Sequences, FiniteSets, TLC

(***************************************************************************)
(* Bounds of the model.  The years are 1..LowYears (the epoch) and         *)
(* RefYear-YearsBefore..RefYear+YearsAfter (the present); together they    *)
(* hold years of all six lengths.                                          *)
(***************************************************************************)
LowYears == 3
RefYear == 5774
YearsBefore == 0
YearsAfter == 8
\* the years whose Rosh Hashanah is looked at alone: 1..WalkSpan and
\* RefYear-WalkSpan..RefYear+WalkSpan
WalkSpan == 1000
\* the dates of RefYear are compared with those of RefYear..RefYear+PairYears
PairYears == 1
\* serial day numbers at or below the epoch offset handed to from_sdn
SdnBelow == 3
\* Gregorian dates on either side of 5 September 2013 handed to from_date
OrdinalSpan == 3
\* arguments outside the constructor's bounds: years -OutOfRange..0, months
\* 0 and 14..13 + OutOfRange, days 0 and 31..30 + OutOfRange
OutOfRange == 1
\* the days of a lunation, on each side of day 0
MoladDays == 7
\* the parts on each side of an hour the dehiyyot look at
HalakimMargin == 2
\* cycles added to a _Molad by one call, -MaxCycles..MaxCycles, and the
\* lunar and the metonic cycles added to it in all, on each side of none
MaxCycles == 3
MaxLunarSum == 12
MaxMetonicSum == 8

Years == (1..LowYears) \cup ((RefYear - YearsBefore)..(RefYear + YearsAfter))

(***************************************************************************)
(* Constants of src/jewish/date.py.                                        *)
(***************************************************************************)
HALAKIM_PER_HOUR == 1080
HALAKIM_PER_DAY == 25920
HALAKIM_PER_LUNAR_CYCLE == 29 * HALAKIM_PER_DAY + 13753
HALAKIM_PER_METONIC_CYCLE == HALAKIM_PER_LUNAR_CYCLE * (12 * 19 + 7)

GREGORIAN_SDN_OFFSET == 1721425
JEWISH_SDN_OFFSET == 347997
NEW_MOON_OF_CREATION == 31524

SUNDAY == 0
MONDAY == 1
TUESDAY == 2
WEDNESDAY == 3
FRIDAY == 5

NOON == 18 * HALAKIM_PER_HOUR
AM3_11_20 == 9 * HALAKIM_PER_HOUR + 204
AM9_32_43 == 15 * HALAKIM_PER_HOUR + 589

LEAP_YEARS == {2, 5, 7, 10, 13, 16, 18}
\* a Python tuple indexed from 0: YEAR_OFFSET[i + 1] is _YEAR_OFFSET[i]
YEAR_OFFSET == <<0, 12, 24, 37, 49, 61, 74, 86, 99, 111, 123, 136, 148, 160,
                 173, 185, 197, 210, 222>>

TISHREI == 1
CHESHVAN == 2
KISLEV == 3
TEVET == 4
SHEVAT == 5
ADAR_I == 6
ADAR_II == 7
NISAN == 8
IYAR == 9
SIVAN == 10
TAMUZ == 11
AV == 12
ELUL == 13

\* Python's None and a present value
None == <<>>
Some(x) == <<x>>
Val(o) == o[1]

(***************************************************************************)
(* Metonic cycle arithmetic.                                               *)
(***************************************************************************)
months_in_metonic_year(year) == IF year \in LEAP_YEARS THEN 13 ELSE 12

metonic_year(year) == (year - 1) % 19

is_leap_year(year) == metonic_year(year) \in LEAP_YEARS

(***************************************************************************)
(* _Molad: a moment as whole days and halakim.                             *)
(***************************************************************************)
\* _fix dividing towards zero, as C's / and % do
Fix_Truncate(day, halakim) ==
    IF halakim < 0
    THEN [day |-> day - ((0 - halakim) \div HALAKIM_PER_DAY),
          halakim |-> 0 - ((0 - halakim) % HALAKIM_PER_DAY)]
    ELSE [day |-> day + (halakim \div HALAKIM_PER_DAY),
          halakim |-> halakim % HALAKIM_PER_DAY]

\* _Molad._fix: Python's // and % floor, as \div and % do
Fix(day, halakim) ==
    [day |-> day + (halakim \div HALAKIM_PER_DAY),
     halakim |-> halakim % HALAKIM_PER_DAY]

\* _Molad.__init__
Molad(day, halakim) == Fix(day, halakim)

\* _Molad._add_halakim
add_halakim(molad, halakim) == Fix(molad.day, molad.halakim + halakim)

\* _Molad._add_halakim(unit * n) for a product too wide for 32 bits: with
\* unit = q * HALAKIM_PER_DAY + r the normal form of halakim + unit * n is
\* day + q * n + (halakim + r * n) // HALAKIM_PER_DAY and
\* (halakim + r * n) % HALAKIM_PER_DAY, which is what _fix computes.
AddHalakimTimes(molad, unit, n) ==
    Fix(molad.day + (unit \div HALAKIM_PER_DAY) * n,
        molad.halakim + (unit % HALAKIM_PER_DAY) * n)

\* _Molad.add_lunar_cycles
add_lunar_cycles(molad, lunarCycles) ==
    add_halakim(molad, HALAKIM_PER_LUNAR_CYCLE * lunarCycles)

\* _Molad.add_metonic_cycles
add_metonic_cycles(molad, metonicCycles) ==
    AddHalakimTimes(molad, HALAKIM_PER_METONIC_CYCLE, metonicCycles)

\* _Molad.day_of_week
day_of_week(molad) == molad.day % 7

(***************************************************************************)
(* The dehiyyot: the first day of a year from its molad.                   *)
(***************************************************************************)
\* get_first_day_of_year with Friday missing from rule 1
get_first_day_of_year_NoFriday(metonicCycleYear, molad) ==
    LET dow == day_of_week(molad)
        lastWasLeapYear == ((metonicCycleYear - 1) % 19) \in LEAP_YEARS
        delayed ==
            \/ molad.halakim >= NOON
            \/ /\ metonicCycleYear \notin LEAP_YEARS
               /\ dow = TUESDAY
               /\ molad.halakim >= AM3_11_20
            \/ /\ lastWasLeapYear
               /\ dow = MONDAY
               /\ molad.halakim >= AM9_32_43
        tishrei1 == IF delayed THEN molad.day + 1 ELSE molad.day
        dow2 == IF delayed THEN (dow + 1) % 7 ELSE dow
    IN  IF dow2 \in {WEDNESDAY, SUNDAY} THEN tishrei1 + 1 ELSE tishrei1

\* get_first_day_of_year without rule 3, the Tuesday molad of a common year
get_first_day_of_year_NoRule3(metonicCycleYear, molad) ==
    LET dow == day_of_week(molad)
        lastWasLeapYear == ((metonicCycleYear - 1) % 19) \in LEAP_YEARS
        delayed ==
            \/ molad.halakim >= NOON
            \/ /\ lastWasLeapYear
               /\ dow = MONDAY
               /\ molad.halakim >= AM9_32_43
        tishrei1 == IF delayed THEN molad.day + 1 ELSE molad.day
        dow2 == IF delayed THEN (dow + 1) % 7 ELSE dow
    IN  IF dow2 \in {WEDNESDAY, FRIDAY, SUNDAY} THEN tishrei1 + 1 ELSE tishrei1

\* get_first_day_of_year with rule 1 looking at the weekday of the molad,
\* not at the weekday rules 2, 3 and 4 moved it to
get_first_day_of_year_StaleDow(metonicCycleYear, molad) ==
    LET dow == day_of_week(molad)
        lastWasLeapYear == ((metonicCycleYear - 1) % 19) \in LEAP_YEARS
        delayed ==
            \/ molad.halakim >= NOON
            \/ /\ metonicCycleYear \notin LEAP_YEARS
               /\ dow = TUESDAY
               /\ molad.halakim >= AM3_11_20
            \/ /\ lastWasLeapYear
               /\ dow = MONDAY
               /\ molad.halakim >= AM9_32_43
        tishrei1 == IF delayed THEN molad.day + 1 ELSE molad.day
    IN  IF dow \in {WEDNESDAY, FRIDAY, SUNDAY} THEN tishrei1 + 1 ELSE tishrei1

get_first_day_of_year(metonicCycleYear, molad) ==
    LET dow == day_of_week(molad)
        lastWasLeapYear == ((metonicCycleYear - 1) % 19) \in LEAP_YEARS
        \* rules 2, 3 and 4
        delayed ==
            \/ molad.halakim >= NOON
            \/ /\ metonicCycleYear \notin LEAP_YEARS
               /\ dow = TUESDAY
               /\ molad.halakim >= AM3_11_20
            \/ /\ lastWasLeapYear
               /\ dow = MONDAY
               /\ molad.halakim >= AM9_32_43
        tishrei1 == IF delayed THEN molad.day + 1 ELSE molad.day
        dow2 == IF delayed THEN (dow + 1) % 7 ELSE dow
    IN  \* rule 1
        IF dow2 \in {WEDNESDAY, FRIDAY, SUNDAY} THEN tishrei1 + 1 ELSE tishrei1

\* molad_of_metonic_cycle counting the cycles from 1
molad_of_metonic_cycle_FromOne(metonicCycle) ==
    add_metonic_cycles(Molad(0, NEW_MOON_OF_CREATION), metonicCycle - 1)

molad_of_metonic_cycle(metonicCycle) ==
    add_metonic_cycles(Molad(0, NEW_MOON_OF_CREATION), metonicCycle)

(***************************************************************************)
(* _find_nearby_tishrei_molad and its two loops.                           *)
(***************************************************************************)
RECURSIVE CycleLoop_NoMargin(_, _, _)
\* the first loop without the 310 days by which it runs ahead
CycleLoop_NoMargin(inputDay, metonicCycle, molad) ==
    IF molad.day < inputDay - 6940
    THEN CycleLoop_NoMargin(inputDay, metonicCycle + 1,
                            add_metonic_cycles(molad, 1))
    ELSE [metonicCycle |-> metonicCycle, molad |-> molad]

RECURSIVE CycleLoop(_, _, _)
\* while molad.day < inputDay - 6940 + 310
CycleLoop(inputDay, metonicCycle, molad) ==
    IF molad.day < inputDay - 6940 + 310
    THEN CycleLoop(inputDay, metonicCycle + 1, add_metonic_cycles(molad, 1))
    ELSE [metonicCycle |-> metonicCycle, molad |-> molad]

RECURSIVE YearLoop(_, _, _)
\* while metonicYear < 18, left by break when molad.day > inputDay - 74
YearLoop(inputDay, metonicYear, molad) ==
    IF metonicYear < 18 /\ ~(molad.day > inputDay - 74)
    THEN YearLoop(inputDay, metonicYear + 1,
                  add_lunar_cycles(molad, months_in_metonic_year(metonicYear)))
    ELSE [metonicYear |-> metonicYear, molad |-> molad]

find_nearby_tishrei_molad(inputDay) ==
    LET c == CycleLoop(inputDay, (inputDay + 310) \div 6940,
                       molad_of_metonic_cycle((inputDay + 310) \div 6940))
        y == YearLoop(inputDay, 0, c.molad)
    IN  [metonicCycle |-> c.metonicCycle,
         metonicYear |-> y.metonicYear,
         molad |-> y.molad]

find_start_of_year(year) ==
    LET metonicCycle == (year - 1) \div 19
        metonicYear == (year - 1) % 19
        molad == add_lunar_cycles(molad_of_metonic_cycle(metonicCycle),
                                  YEAR_OFFSET[metonicYear + 1])
    IN  [metonicCycle |-> metonicCycle,
         metonicYear |-> metonicYear,
         molad |-> molad,
         tishrei1 |-> get_first_day_of_year(metonicYear, molad)]

(***************************************************************************)
(* What a call gives: a value, or the exception it raises.                 *)
(***************************************************************************)
Return(v) == [raised |-> "", value |-> Some(v)]
Raise(e) == [raised |-> e, value |-> None]

(***************************************************************************)
(* JewishDate.                                                             *)
(***************************************************************************)
\* JewishDate.__init__ letting year 0 through
JewishDate_YearZero(year, month, day) ==
    IF year < 0 \/ month < 1 \/ month > 13 \/ day < 1 \/ day > 30
    THEN Raise("InvalidDateError")
    ELSE Return([year |-> year, month |-> month, day |-> day,
                 isLeapYear |-> is_leap_year(year)])

\* JewishDate.__init__
JewishDate(year, month, day) ==
    IF year <= 0 \/ month < 1 \/ month > 13 \/ day < 1 \/ day > 30
    THEN Raise("InvalidDateError")
    ELSE Return([year |-> year, month |-> month, day |-> day,
                 isLeapYear |-> is_leap_year(year)])

\* MonthOffset with the two lengths of the Adars exchanged
MonthOffset_SwappedAdars(self) ==
    LET adarsLength == IF self.isLeapYear THEN 29 ELSE 59
    IN  (TISHREI :> -1) @@ (CHESHVAN :> 29) @@
        (TEVET :> adarsLength + 237) @@ (SHEVAT :> adarsLength + 208) @@
        (ADAR_I :> adarsLength + 178) @@ (ADAR_II :> 207) @@
        (NISAN :> 178) @@ (IYAR :> 148) @@ (SIVAN :> 119) @@
        (TAMUZ :> 89) @@ (AV :> 60) @@ (ELUL :> 30)

\* MonthOffset with an entry for Adar I in leap years only
MonthOffset_AdarIWhenLeap(self) ==
    LET adarsLength == IF self.isLeapYear THEN 59 ELSE 29
        common ==
            (TISHREI :> -1) @@ (CHESHVAN :> 29) @@
            (TEVET :> adarsLength + 237) @@ (SHEVAT :> adarsLength + 208) @@
            (ADAR_II :> 207) @@
            (NISAN :> 178) @@ (IYAR :> 148) @@ (SIVAN :> 119) @@
            (TAMUZ :> 89) @@ (AV :> 60) @@ (ELUL :> 30)
    IN  IF self.isLeapYear
        THEN common @@ (ADAR_I :> adarsLength + 178)
        ELSE common

\* the dict offset of to_sdn; Kislev has no entry
MonthOffset(self) ==
    LET adarsLength == IF self.isLeapYear THEN 59 ELSE 29
    IN  (TISHREI :> -1) @@ (CHESHVAN :> 29) @@
        (TEVET :> adarsLength + 237) @@ (SHEVAT :> adarsLength + 208) @@
        (ADAR_I :> adarsLength + 178) @@ (ADAR_II :> 207) @@
        (NISAN :> 178) @@ (IYAR :> 148) @@ (SIVAN :> 119) @@
        (TAMUZ :> 89) @@ (AV :> 60) @@ (ELUL :> 30)

\* to_sdn, the two ends of the year: tishrei1 of the year, and nextTishrei1
\* from the year's molad moved on by the months of the year
YearEnds(year) ==
    LET start == find_start_of_year(year)
        molad == add_lunar_cycles(start.molad,
                                  months_in_metonic_year(start.metonicYear))
    IN  [tishrei1 |-> start.tishrei1,
         nextTishrei1 |->
             get_first_day_of_year((start.metonicYear + 1) % 19, molad)]

\* JewishDate.to_sdn
to_sdn(self) ==
    IF self.year <= 0 \/ self.day <= 0 \/ self.day > 30
    THEN Raise("InvalidDateError")
    ELSE
    LET ends == YearEnds(self.year)
        tishrei1 == ends.tishrei1
        nextTishrei1 == ends.nextTishrei1
        yearLength == nextTishrei1 - tishrei1
        offset == MonthOffset(self)
    IN  IF self.month \in {TISHREI, CHESHVAN}
        THEN Return(tishrei1 + self.day + offset[self.month]
                    + JEWISH_SDN_OFFSET)
        ELSE IF self.month = KISLEV
        THEN IF yearLength \in {355, 385}
             THEN Return(tishrei1 + self.day + 59 + JEWISH_SDN_OFFSET)
             ELSE Return(tishrei1 + self.day + 58 + JEWISH_SDN_OFFSET)
        ELSE IF self.month \in DOMAIN offset
        THEN Return(nextTishrei1 + self.day - offset[self.month]
                    + JEWISH_SDN_OFFSET)
        ELSE \* KeyError
             Raise("InvalidDateError")

\* CheshvanOrKislev with the 385 day year forgotten
CheshvanOrKislev_No385(year, inputDay, tishrei1, nextTishrei1) ==
    LET yearLength == nextTishrei1 - tishrei1
        day == inputDay - tishrei1 - 29
        cheshvanLength == IF yearLength = 355 THEN 30 ELSE 29
    IN  IF day <= cheshvanLength
        THEN JewishDate(year, CHESHVAN, day)
        ELSE JewishDate(year, KISLEV, day - cheshvanLength)

\* CheshvanOrKislev with Cheshvan 30 days long in every year
CheshvanOrKislev_Always30(year, inputDay, tishrei1, nextTishrei1) ==
    LET day == inputDay - tishrei1 - 29
    IN  IF day <= 30
        THEN JewishDate(year, CHESHVAN, day)
        ELSE JewishDate(year, KISLEV, day - 30)

\* from_sdn, the end: Cheshvan or Kislev by the length of the year
CheshvanOrKislev(year, inputDay, tishrei1, nextTishrei1) ==
    LET yearLength == nextTishrei1 - tishrei1
        day == inputDay - tishrei1 - 29
        cheshvanLength == IF yearLength \in {355, 385} THEN 30 ELSE 29
    IN  IF day <= cheshvanLength
        THEN JewishDate(year, CHESHVAN, day)
        ELSE JewishDate(year, KISLEV, day - cheshvanLength)

\* from_sdn, the loop over the last 6 months of the year; offsets[i] is the
\* pair the loop's i-th pass looks at
LastMonths ==
    <<[month |-> ELUL, offset |-> 30], [month |-> AV, offset |-> 60],
      [month |-> TAMUZ, offset |-> 89], [month |-> SIVAN, offset |-> 119],
      [month |-> IYAR, offset |-> 148], [month |-> NISAN, offset |-> 178]>>

RECURSIVE LastMonthsLoop(_, _, _, _)
LastMonthsLoop(year, inputDay, nextTishrei1, i) ==
    IF inputDay > nextTishrei1 - LastMonths[i].offset
    THEN JewishDate(year, LastMonths[i].month,
                    inputDay - nextTishrei1 + LastMonths[i].offset)
    ELSE IF i < Len(LastMonths)
    THEN LastMonthsLoop(year, inputDay, nextTishrei1, i + 1)
    ELSE \* the loop ends without break: day is unbound at get_result()
         Raise("NameError")

\* WinterMonths with Shevat taken to be 29 days long
WinterMonths_Shevat29(year, inputDay, nextTishrei1, molad) ==
    LET dayAdarII == inputDay - nextTishrei1 + 207
        dayAdarI == dayAdarII + 30
        dayShevat == (IF is_leap_year(year) THEN dayAdarI ELSE dayAdarII) + 29
        dayTevet == dayShevat + 29
        found == find_nearby_tishrei_molad(molad.day - 365)
        tishrei1 == get_first_day_of_year(found.metonicYear, found.molad)
    IN  IF dayAdarII > 0 THEN JewishDate(year, ADAR_II, dayAdarII)
        ELSE IF is_leap_year(year) /\ dayAdarI > 0
        THEN JewishDate(year, ADAR_I, dayAdarI)
        ELSE IF dayShevat > 0 THEN JewishDate(year, SHEVAT, dayShevat)
        ELSE IF dayTevet > 0 THEN JewishDate(year, TEVET, dayTevet)
        ELSE CheshvanOrKislev(year, inputDay, tishrei1, nextTishrei1)

\* from_sdn, Adar II back to Tevet, and the second search when none of
\* them holds the day
WinterMonths(year, inputDay, nextTishrei1, molad) ==
    LET dayAdarII == inputDay - nextTishrei1 + 207
        dayAdarI == dayAdarII + 30
        dayShevat == (IF is_leap_year(year) THEN dayAdarI ELSE dayAdarII) + 30
        dayTevet == dayShevat + 29
        found == find_nearby_tishrei_molad(molad.day - 365)
        tishrei1 == get_first_day_of_year(found.metonicYear, found.molad)
    IN  IF dayAdarII > 0 THEN JewishDate(year, ADAR_II, dayAdarII)
        ELSE IF is_leap_year(year) /\ dayAdarI > 0
        THEN JewishDate(year, ADAR_I, dayAdarI)
        ELSE IF dayShevat > 0 THEN JewishDate(year, SHEVAT, dayShevat)
        ELSE IF dayTevet > 0 THEN JewishDate(year, TEVET, dayTevet)
        ELSE CheshvanOrKislev(year, inputDay, tishrei1, nextTishrei1)

\* JewishDate.from_sdn, from inputDay on
FromInputDay(inputDay) ==
    LET found == find_nearby_tishrei_molad(inputDay)
        metonicCycle == found.metonicCycle
        metonicYear == found.metonicYear
        tishrei1 == get_first_day_of_year(metonicYear, found.molad)
    IN  IF inputDay >= tishrei1
        THEN \* it found Tishrei 1 at the start of the year
             LET year == metonicCycle * 19 + metonicYear + 1
                 molad == add_lunar_cycles(found.molad,
                              months_in_metonic_year(metonicYear))
                 nextTishrei1 ==
                     get_first_day_of_year((metonicYear + 1) % 19, molad)
             IN  IF inputDay < tishrei1 + 59
                 THEN IF inputDay < tishrei1 + 30
                      THEN JewishDate(year, TISHREI, inputDay - tishrei1 + 1)
                      ELSE JewishDate(year, CHESHVAN, inputDay - tishrei1 - 29)
                 ELSE CheshvanOrKislev(year, inputDay, tishrei1, nextTishrei1)
        ELSE \* it found Tishrei 1 at the end of the year
             LET nextTishrei1 == tishrei1
                 year == metonicCycle * 19 + metonicYear
             IN  IF inputDay >= nextTishrei1 - 177
                 THEN LastMonthsLoop(year, inputDay, nextTishrei1, 1)
                 ELSE WinterMonths(year, inputDay, nextTishrei1, found.molad)

\* from_sdn turning away the first day of year 1 too
from_sdn_OffByOne(sdn) ==
    IF sdn <= JEWISH_SDN_OFFSET + 1
    THEN Raise("InvalidDateError")
    ELSE FromInputDay(sdn - JEWISH_SDN_OFFSET)

\* JewishDate.from_sdn
from_sdn(sdn) ==
    IF sdn <= JEWISH_SDN_OFFSET
    THEN Raise("InvalidDateError")
    ELSE FromInputDay(sdn - JEWISH_SDN_OFFSET)

\* JewishDate.english_month_name
MonthNames ==
    <<"Tishrei", "Cheshvan", "Kislev", "Tevet", "Shevat", "Adar I",
      "Adar II", "Nisan", "Iyar", "Sivan", "Tamuz", "Av", "Elul">>

english_month_name(self) ==
    IF self.month = ADAR_II /\ ~self.isLeapYear
    THEN "Adar II"
    ELSE MonthNames[self.month]

(***************************************************************************)
(* The Gregorian side: datetime.date of the standard library, as far as    *)
(* from_date and to_date use it.                                           *)
(***************************************************************************)
\* datetime.date(year, month, day).toordinal(): 1 January of year 1 is 1
DaysBeforeMonth ==
    <<0, 31, 59, 90, 120, 151, 181, 212, 243, 273, 304, 334>>

GregorianLeap(year) ==
    year % 4 = 0 /\ (year % 100 # 0 \/ year % 400 = 0)

toordinal(year, month, day) ==
    LET y == year - 1
    IN  y * 365 + (y \div 4) - (y \div 100) + (y \div 400)
        + DaysBeforeMonth[month]
        + (IF month > 2 /\ GregorianLeap(year) THEN 1 ELSE 0)
        + day

\* datetime.date.weekday() of the date of an ordinal: Monday is 0
weekday(ordinal) == (ordinal + 6) % 7

\* JewishDate.to_date: date.fromordinal raises ValueError below ordinal 1
to_date(self) ==
    LET s == to_sdn(self)
    IN  IF s.raised # "" THEN s
        ELSE IF Val(s.value) - GREGORIAN_SDN_OFFSET < 1
        THEN Raise("ValueError")
        ELSE Return(Val(s.value) - GREGORIAN_SDN_OFFSET)

\* JewishDate.from_date, of the date whose toordinal() is ordinal
from_date(ordinal) == from_sdn(ordinal + GREGORIAN_SDN_OFFSET)

(***************************************************************************)
(* The state: one chain of calls.                                          *)
(*   pc       where the chain stands                                       *)
(*   date     the JewishDate the caller constructed                        *)
(*   sdn      the serial day number in hand: to_sdn's result, or the       *)
(*            argument of from_sdn                                         *)
(*   back     the second JewishDate: the one from_sdn returned, or the one *)
(*            constructed beside date                                      *)
(*   sdnBack  to_sdn() of back                                             *)
(*   name     english_month_name()'s result                                *)
(*   ordinal  the Gregorian date in hand, by its ordinal                   *)
(*   raised   the exception the last call raised, "" when it returned      *)
(* and, for the calls of the module's own functions,                       *)
(*   molad             the _Molad in hand                                  *)
(*   added             what went into molad: the constructor's arguments   *)
(*                     and the lunar and metonic cycles added since        *)
(*   metonicCycleYear  the position _get_first_day_of_year was called with *)
(*   tishrei1          _get_first_day_of_year's result                     *)
(*   inputDay          the day _find_nearby_tishrei_molad was called with  *)
(*   found             _find_nearby_tishrei_molad's result                 *)
(***************************************************************************)
VARIABLES pc, date, sdn, back, sdnBack, name, ordinal, raised,
          molad, added, metonicCycleYear, tishrei1, inputDay, found

\* the state of the calls on a JewishDate
dateVars == <<date, sdn, back, sdnBack, name, ordinal, raised>>

\* the state of the calls of the module's own functions
moladVars == <<molad, added, metonicCycleYear, tishrei1, inputDay, found>>

vars == <<pc, dateVars, moladVars>>

\* the arguments the constructor is called with
YearInputs == Years \cup ((0 - OutOfRange)..0)
MonthInputs == 0..(13 + OutOfRange)
DayInputs == 0..(30 + OutOfRange)

\* the years whose Rosh Hashanah is looked at alone
WalkYears == (1..WalkSpan) \cup ((RefYear - WalkSpan)..(RefYear + WalkSpan))

\* the years of the second date of a pair
PairYearSet == RefYear..(RefYear + PairYears)

\* the serial day number of Tishrei 1 of a year
FirstSdn(year) == find_start_of_year(year).tishrei1 + JEWISH_SDN_OFFSET

\* the arguments from_sdn is called with: every day of the years of the
\* model, and SdnBelow days that are not after the epoch offset
SdnInputs ==
    ((JEWISH_SDN_OFFSET - SdnBelow + 1)..(FirstSdn(LowYears + 1) - 1))
    \cup (FirstSdn(RefYear - YearsBefore)..(FirstSdn(RefYear + YearsAfter + 1) - 1))

\* the Gregorian dates from_date is called with
OrdinalInputs ==
    (toordinal(2013, 9, 5) - OrdinalSpan)..(toordinal(2013, 9, 5) + OrdinalSpan)

Init ==
    /\ pc = "idle"
    /\ date = None
    /\ sdn = None
    /\ back = None
    /\ sdnBack = None
    /\ name = None
    /\ ordinal = None
    /\ raised = ""
    /\ molad = None
    /\ added = None
    /\ metonicCycleYear = None
    /\ tishrei1 = None
    /\ inputDay = None
    /\ found = None

\* JewishDate(year, month, day)
New(year, month, day) ==
    /\ pc = "idle"
    /\ LET r == JewishDate(year, month, day)
       IN  /\ date' = r.value
           /\ raised' = r.raised
           /\ pc' = IF r.raised = "" THEN "constructed" ELSE "failed"
    /\ UNCHANGED <<sdn, back, sdnBack, name, ordinal>>
    /\ UNCHANGED moladVars

\* date.to_sdn()
ToSdn ==
    /\ pc = "constructed"
    /\ LET r == to_sdn(Val(date))
       IN  /\ sdn' = r.value
           /\ raised' = r.raised
           /\ pc' = IF r.raised = "" THEN "converted" ELSE "failed"
    /\ UNCHANGED <<date, back, sdnBack, name, ordinal>>
    /\ UNCHANGED moladVars

\* JewishDate.from_sdn(date.to_sdn())
RoundTrip ==
    /\ pc = "converted"
    /\ LET r == from_sdn(Val(sdn))
       IN  /\ back' = r.value
           /\ raised' = r.raised
           /\ pc' = IF r.raised = "" THEN "returned" ELSE "failed"
    /\ UNCHANGED <<date, sdn, sdnBack, name, ordinal>>
    /\ UNCHANGED moladVars

\* date.english_month_name()
EnglishMonthName ==
    /\ pc = "constructed"
    /\ name' = Some(english_month_name(Val(date)))
    /\ pc' = "named"
    /\ UNCHANGED <<date, sdn, back, sdnBack, ordinal, raised>>
    /\ UNCHANGED moladVars

\* date.to_date()
ToDate ==
    /\ pc = "constructed"
    /\ LET r == to_date(Val(date))
       IN  /\ ordinal' = r.value
           /\ raised' = r.raised
           /\ pc' = IF r.raised = "" THEN "dated" ELSE "failed"
    /\ UNCHANGED <<date, sdn, back, sdnBack, name>>
    /\ UNCHANGED moladVars

\* JewishDate.from_sdn(s)
FromSdn(s) ==
    /\ pc = "idle"
    /\ sdn' = Some(s)
    /\ LET r == from_sdn(s)
       IN  /\ back' = r.value
           /\ raised' = r.raised
           /\ pc' = IF r.raised = "" THEN "parsed" ELSE "failed"
    /\ UNCHANGED <<date, sdnBack, name, ordinal>>
    /\ UNCHANGED moladVars

\* JewishDate.from_date(d), d the date of ordinal o
FromDate(o) ==
    /\ pc = "idle"
    /\ ordinal' = Some(o)
    /\ sdn' = Some(o + GREGORIAN_SDN_OFFSET)
    /\ LET r == from_date(o)
       IN  /\ back' = r.value
           /\ raised' = r.raised
           /\ pc' = IF r.raised = "" THEN "parsed" ELSE "failed"
    /\ UNCHANGED <<date, sdnBack, name>>
    /\ UNCHANGED moladVars

\* JewishDate(year, month, day).to_sdn() of a second date, beside date
NewOther(year, month, day) ==
    /\ pc = "converted"
    /\ LET d == JewishDate(year, month, day)
           r == IF d.raised = "" THEN to_sdn(Val(d.value)) ELSE d
       IN  /\ back' = d.value
           /\ sdnBack' = r.value
           /\ raised' = r.raised
           /\ pc' = IF r.raised = "" THEN "compared" ELSE "failed"
    /\ UNCHANGED <<date, sdn, name, ordinal>>
    /\ UNCHANGED moladVars

\* JewishDate(date.year + 1, 1, 1).to_sdn(): the next Rosh Hashanah
NextRoshHashanah ==
    /\ pc = "converted"
    /\ NewOther(Val(date).year + 1, TISHREI, 1)

\* back.to_sdn(), back the date from_sdn or from_date returned
ToSdnBack ==
    /\ pc = "parsed"
    /\ LET r == to_sdn(Val(back))
       IN  /\ sdnBack' = r.value
           /\ raised' = r.raised
           /\ pc' = IF r.raised = "" THEN "reconverted" ELSE "failed"
    /\ UNCHANGED <<date, sdn, back, name, ordinal>>
    /\ UNCHANGED moladVars

Next ==
    \/ \E year \in YearInputs, month \in MonthInputs, day \in DayInputs :
           New(year, month, day)
    \/ ToSdn
    \/ RoundTrip
    \/ EnglishMonthName
    \/ ToDate
    \/ \E s \in SdnInputs : FromSdn(s)
    \/ \E o \in OrdinalInputs : FromDate(o)
    \/ ToSdnBack

Spec == Init /\ [][Next]_vars

(***************************************************************************)
(* The calendar the claims speak of.                                       *)
(***************************************************************************)
\* the length of a year in days, as to_sdn computes it
YearLength(year) == YearEnds(year).nextTishrei1 - YearEnds(year).tishrei1

\* the true length of a month of a year; Adar I has no day in a common year
MonthLength(year, month) ==
    CASE month = CHESHVAN ->
             IF YearLength(year) \in {355, 385} THEN 30 ELSE 29
      [] month = KISLEV ->
             IF YearLength(year) \in {353, 383} THEN 29 ELSE 30
      [] month = ADAR_I -> IF is_leap_year(year) THEN 30 ELSE 0
      [] month \in {TISHREI, SHEVAT, NISAN, SIVAN, AV} -> 30
      [] OTHER -> 29

\* a calendrically valid date
Valid(d) == d.day <= MonthLength(d.year, d.month)

\* the fields are within the constructor's bounds
InBounds(d) == d.year >= 1 /\ d.month \in 1..13 /\ d.day \in 1..30

SameDate(a, b) == a.year = b.year /\ a.month = b.month /\ a.day = b.day

\* a is chronologically before b
Before(a, b) ==
    \/ a.year < b.year
    \/ a.year = b.year /\ a.month < b.month
    \/ a.year = b.year /\ a.month = b.month /\ a.day < b.day

\* Rosh Hashanah of one year after the other
NextYear ==
    \/ \E year \in WalkYears : New(year, TISHREI, 1)
    \/ ToSdn
    \/ ToDate
    \/ NextRoshHashanah

SpecYear == Init /\ [][NextYear]_vars

\* a date of RefYear and a later date of the same or a following year
NextPair ==
    \/ \E month \in 1..13, day \in 1..30 : New(RefYear, month, day)
    \/ ToSdn
    \/ \E year \in PairYearSet, month \in 1..13, day \in 1..30 :
           /\ pc = "converted"
           /\ Before(Val(date), [year |-> year, month |-> month, day |-> day])
           /\ NewOther(year, month, day)

SpecPair == Init /\ [][NextPair]_vars

(***************************************************************************)
(* C1: a calendrically valid date converted to its serial day number and   *)
(* back is the same year, month and day, and neither conversion raises.    *)
(***************************************************************************)
C1_RoundTrip ==
    (date # None /\ Valid(Val(date)))
        => /\ raised \in {"", "ValueError"}
           /\ pc = "returned" => SameDate(Val(back), Val(date))

\* the last day of a 30 day Kislev has made the round trip
C1_Witness ==
    /\ pc = "returned"
    /\ Valid(Val(date))
    /\ Val(date).month = KISLEV
    /\ Val(date).day = 30
    /\ SameDate(Val(back), Val(date))

(***************************************************************************)
(* C2: from_sdn of a serial day number after the epoch offset raises       *)
(* nothing, gives a date within the constructor's bounds, and to_sdn of    *)
(* that date is the serial day number again.                               *)
(***************************************************************************)
C2_Bijection ==
    (date = None /\ sdn # None /\ Val(sdn) > JEWISH_SDN_OFFSET)
        => /\ raised = ""
           /\ pc \in {"parsed", "reconverted"}
           /\ InBounds(Val(back))
           /\ pc = "reconverted" => sdnBack = sdn

\* a day of Shevat, found from the Tishrei 1 after it, has come back
C2_Witness ==
    /\ pc = "reconverted"
    /\ date = None
    /\ Val(sdn) > JEWISH_SDN_OFFSET
    /\ Val(back).month = SHEVAT
    /\ sdnBack = sdn

(***************************************************************************)
(* C3: to_sdn is strictly monotonic: of two calendrically valid dates, the *)
(* chronologically earlier one has the smaller serial day number.          *)
(***************************************************************************)
C3_Monotonic ==
    (/\ pc = "compared"
     /\ Valid(Val(date))
     /\ Valid(Val(back))
     /\ Before(Val(date), Val(back)))
        => Val(sdn) < Val(sdnBack)

\* the last day of a year and the first day of the next, one day apart
C3_Witness ==
    /\ pc = "compared"
    /\ Valid(Val(date))
    /\ Val(date).month = ELUL
    /\ Val(date).day = 29
    /\ Val(back).year = Val(date).year + 1
    /\ Val(back).month = TISHREI
    /\ Val(back).day = 1
    /\ Val(sdnBack) = Val(sdn) + 1

(***************************************************************************)
(* C4: from_sdn raises InvalidDateError for every serial day number not    *)
(* after the epoch offset, and from_sdn of the offset plus one is day 1 of *)
(* Tishrei of year 1.                                                      *)
(***************************************************************************)
C4_EpochBoundary ==
    (date = None /\ sdn # None)
        => /\ Val(sdn) <= JEWISH_SDN_OFFSET
               => pc = "failed" /\ raised = "InvalidDateError" /\ back = None
           /\ Val(sdn) = JEWISH_SDN_OFFSET + 1
               => /\ raised = ""
                  /\ back # None
                  /\ Val(back).year = 1
                  /\ Val(back).month = TISHREI
                  /\ Val(back).day = 1

\* from_sdn has turned the epoch offset itself away
C4_Witness ==
    /\ pc = "failed"
    /\ date = None
    /\ sdn = Some(JEWISH_SDN_OFFSET)
    /\ raised = "InvalidDateError"

(***************************************************************************)
(* C5: lo adu rosh.  Tishrei 1 of a year never falls on Sunday, Wednesday  *)
(* or Friday: its day number, to_sdn() less the epoch offset, is what      *)
(* _get_first_day_of_year gives for the year and is not 0, 3 or 5 modulo   *)
(* 7, and the weekday of its Gregorian date is not 6, 2 or 4.              *)
(***************************************************************************)
C5_LoAduRosh ==
    (/\ pc \in {"converted", "compared", "dated"}
     /\ Val(date).month = TISHREI
     /\ Val(date).day = 1)
        => /\ pc # "dated"
               => LET t == Val(sdn) - JEWISH_SDN_OFFSET
                  IN  /\ t = find_start_of_year(Val(date).year).tishrei1
                      /\ t % 7 \notin {SUNDAY, WEDNESDAY, FRIDAY}
                      /\ weekday(Val(sdn) - GREGORIAN_SDN_OFFSET)
                             \notin {6, 2, 4}
           /\ pc = "dated" => weekday(Val(ordinal)) \notin {6, 2, 4}

\* a Rosh Hashanah whose molad falls on Sunday, Wednesday or Friday and
\* which the rules have moved off that day
C5_Witness ==
    /\ pc = "converted"
    /\ Val(date).month = TISHREI
    /\ Val(date).day = 1
    /\ day_of_week(find_start_of_year(Val(date).year).molad)
           \in {SUNDAY, WEDNESDAY, FRIDAY}
    /\ Val(sdn) - JEWISH_SDN_OFFSET
           > find_start_of_year(Val(date).year).molad.day

(***************************************************************************)
(* C6: the length of a year, from its Rosh Hashanah to the next, is        *)
(* positive, is the yearLength to_sdn computes, and is 353, 354 or 355     *)
(* days in a common year and 383, 384 or 385 days in a leap year.          *)
(***************************************************************************)
C6_YearLength ==
    (/\ pc = "compared"
     /\ Val(date).month = TISHREI
     /\ Val(date).day = 1
     /\ SameDate(Val(back), [year |-> Val(date).year + 1,
                             month |-> TISHREI, day |-> 1]))
        => LET length == Val(sdnBack) - Val(sdn)
           IN  /\ length > 0
               /\ length = YearLength(Val(date).year)
               /\ length \in (IF Val(date).isLeapYear
                              THEN {383, 384, 385}
                              ELSE {353, 354, 355})

\* a leap year of 384 days, the rarest length
C6_Witness ==
    /\ pc = "compared"
    /\ Val(date).month = TISHREI
    /\ Val(date).day = 1
    /\ Val(back).year = Val(date).year + 1
    /\ Val(date).isLeapYear
    /\ Val(sdnBack) - Val(sdn) = 384

(***************************************************************************)
(* C7, as claimed: to_sdn of a date of month 6 (Adar I) in a common year   *)
(* raises InvalidDateError and returns no serial day number.               *)
(***************************************************************************)
C7_AdarIRejected ==
    (/\ date # None
     /\ ~Val(date).isLeapYear
     /\ Val(date).month = ADAR_I
     /\ pc \in {"converted", "returned", "failed"}
     /\ raised # "ValueError")
        => raised = "InvalidDateError" /\ sdn = None

(***************************************************************************)
(* C7, amended: to_sdn of a date of month 6 in a common year raises        *)
(* nothing and returns the serial day number of the same day of month 7    *)
(* of that year; from_sdn maps it to that day of month 7, or to Nisan 1    *)
(* when the day is 30, and never back to month 6.                          *)
(***************************************************************************)
C7_AdarIAsAdar ==
    (/\ date # None
     /\ ~Val(date).isLeapYear
     /\ Val(date).month = ADAR_I)
        => /\ raised \in {"", "ValueError"}
           /\ pc \in {"converted", "returned"}
               => sdn = to_sdn([Val(date) EXCEPT !.month = ADAR_II]).value
           /\ pc = "returned"
               => /\ Val(back).year = Val(date).year
                  /\ Val(back).month # ADAR_I
                  /\ Val(date).day <= 29
                         => /\ Val(back).month = ADAR_II
                            /\ Val(back).day = Val(date).day
                  /\ Val(date).day = 30
                         => Val(back).month = NISAN /\ Val(back).day = 1

\* a day of month 6 of a common year has come back as that day of month 7
C7_Witness ==
    /\ pc = "returned"
    /\ ~Val(date).isLeapYear
    /\ Val(date).month = ADAR_I
    /\ Val(back).month = ADAR_II
    /\ Val(back).day = Val(date).day

(***************************************************************************)
(* C8, as claimed: english_month_name() of a date of month 7 is "Adar II"  *)
(* in a leap year and "Adar" in a common year, and that of a date of month *)
(* 6 is "Adar I".                                                          *)
(***************************************************************************)
C8_AdarName ==
    pc = "named"
        => /\ Val(date).month = ADAR_II
               => name = Some(IF Val(date).isLeapYear
                              THEN "Adar II" ELSE "Adar")
           /\ Val(date).month = ADAR_I => name = Some("Adar I")

(***************************************************************************)
(* C9: 1 Tishrei 5774 is 5 September 2013.  to_sdn() of (5774, 1, 1) is    *)
(* the Gregorian ordinal 735116 plus the Gregorian offset, 2456541;        *)
(* to_date() gives that ordinal; from_sdn and from_date give (5774, 1, 1)  *)
(* back.                                                                   *)
(***************************************************************************)
C9_Anchor ==
    /\ toordinal(2013, 9, 5) = 735116
    /\ (date # None /\ SameDate(Val(date), [year |-> 5774, month |-> TISHREI,
                                            day |-> 1]))
           => /\ raised = ""
              /\ pc \in {"converted", "returned"}
                     => /\ Val(sdn) = 735116 + GREGORIAN_SDN_OFFSET
                        /\ Val(sdn) = 2456541
              /\ pc = "returned" => SameDate(Val(back), Val(date))
              /\ pc = "dated" => ordinal = Some(735116)
    /\ (date = None /\ sdn = Some(2456541))
           => /\ raised = ""
              /\ SameDate(Val(back), [year |-> 5774, month |-> TISHREI,
                                      day |-> 1])

\* from_date of 5 September 2013 has given 1 Tishrei 5774
C9_Witness ==
    /\ pc = "parsed"
    /\ ordinal = Some(toordinal(2013, 9, 5))
    /\ sdn = Some(2456541)
    /\ SameDate(Val(back), [year |-> 5774, month |-> TISHREI, day |-> 1])

(***************************************************************************)
(* C10: day 30 of a month that has 29 days in its year is converted        *)
(* without an error, and its serial day number does not convert back to    *)
(* that date.                                                              *)
(***************************************************************************)
C10_Lenient ==
    (/\ date # None
     /\ Val(date).day = 30
     /\ MonthLength(Val(date).year, Val(date).month) = 29)
        => /\ raised \in {"", "ValueError"}
           /\ pc = "returned" => ~SameDate(Val(back), Val(date))

\* day 30 of a 29 day Cheshvan has come back as 1 Kislev
C10_Witness ==
    /\ pc = "returned"
    /\ Val(date).month = CHESHVAN
    /\ Val(date).day = 30
    /\ MonthLength(Val(date).year, CHESHVAN) = 29
    /\ Val(back).month = KISLEV
    /\ Val(back).day = 1

(***************************************************************************)
(* C11: JewishDate(year, month, day) raises InvalidDateError if and only   *)
(* if year < 1 or month is outside 1..13 or day is outside 1..30; every    *)
(* other triple gives a date of that year, month and day, day 30 of a 29   *)
(* day month and Adar I of a common year among them.                       *)
(***************************************************************************)
OutOfBounds(year, month, day) ==
    year < 1 \/ month \notin 1..13 \/ day \notin 1..30

\* the years the constructor alone is called with
NewYearInputs == ((0 - OutOfRange)..LowYears) \cup {RefYear}

\* calls of the constructor
NextNew ==
    \E year \in NewYearInputs, month \in MonthInputs, day \in DayInputs :
        New(year, month, day)

SpecNew == Init /\ [][NextNew]_vars

C11_Constructor ==
    [][(pc = "idle" /\ sdn' = None)
           => \A year \in NewYearInputs, month \in MonthInputs,
                 day \in DayInputs :
                  New(year, month, day)
                      => /\ raised' = "InvalidDateError"
                             <=> OutOfBounds(year, month, day)
                         /\ ~OutOfBounds(year, month, day)
                             => /\ raised' = ""
                                /\ pc' = "constructed"
                                /\ SameDate(Val(date'),
                                       [year |-> year, month |-> month,
                                        day |-> day])]_vars

\* the constructor has taken day 30 of a Cheshvan of 29 days
C11_Witness ==
    /\ pc = "constructed"
    /\ raised = ""
    /\ Val(date).month = CHESHVAN
    /\ Val(date).day = 30
    /\ MonthLength(Val(date).year, CHESHVAN) = 29

(***************************************************************************)
(* The calls of the module's own functions: a _Molad is made, cycles are   *)
(* added to it, and the first day of a year is got from it.                *)
(***************************************************************************)
\* _Molad(day, halakim)
NewMolad(day, halakim) ==
    /\ pc = "idle"
    /\ molad' = Some(Molad(day, halakim))
    /\ added' = Some([day |-> day, halakim |-> halakim,
                      lunarCycles |-> 0, metonicCycles |-> 0])
    /\ pc' = "molad"
    /\ UNCHANGED <<metonicCycleYear, tishrei1, inputDay, found>>
    /\ UNCHANGED dateVars

\* _get_first_day_of_year(p, molad): it reads molad and assigns nothing to it
GetFirstDayOfYear(p) ==
    /\ pc = "molad"
    /\ metonicCycleYear' = Some(p)
    /\ tishrei1' = Some(get_first_day_of_year(p, Val(molad)))
    /\ pc' = "resolved"
    /\ UNCHANGED <<molad, added, inputDay, found>>
    /\ UNCHANGED dateVars

\* the days of the lunations the first day of a year is got from
ResolveDays == (0 - MoladDays)..MoladDays

\* their halakim: the ends of the day and HalakimMargin parts on each side
\* of the three hours the rules look at
ResolveHalakim ==
    (0..HalakimMargin)
    \cup ((HALAKIM_PER_DAY - 1 - HalakimMargin)..(HALAKIM_PER_DAY - 1))
    \cup ((AM3_11_20 - HalakimMargin)..(AM3_11_20 + HalakimMargin))
    \cup ((AM9_32_43 - HalakimMargin)..(AM9_32_43 + HalakimMargin))
    \cup ((NOON - HalakimMargin)..(NOON + HalakimMargin))

NextResolve ==
    \/ \E day \in ResolveDays, halakim \in ResolveHalakim :
           NewMolad(day, halakim)
    \/ \E p \in 0..18 : GetFirstDayOfYear(p)

SpecResolve == Init /\ [][NextResolve]_vars

\* C12: for every position p in 0..18 and every normalized lunation
\* (day, halakim), _get_first_day_of_year(p, lunation) is day + a + b, where
\* a = 1 iff halakim >= 19440, or p is not a leap position and day mod 7 = 2
\* and halakim >= 9924, or (p - 1) mod 19 is a leap position and
\* day mod 7 = 1 and halakim >= 16789, and b = 1 iff (day + a) mod 7 is 0, 3
\* or 5; so the result is day, day + 1 or day + 2, and the lunation is
\* after the call what it was made as.
C12_Dehiyyot ==
    pc = "resolved" =>
        LET p == Val(metonicCycleYear)
            day == Val(molad).day
            halakim == Val(molad).halakim
            a == IF \/ halakim >= 19440
                    \/ /\ p \notin {2, 5, 7, 10, 13, 16, 18}
                       /\ day % 7 = 2
                       /\ halakim >= 9924
                    \/ /\ ((p - 1) % 19) \in {2, 5, 7, 10, 13, 16, 18}
                       /\ day % 7 = 1
                       /\ halakim >= 16789
                 THEN 1 ELSE 0
            b == IF ((day + a) % 7) \in {0, 3, 5} THEN 1 ELSE 0
        IN  /\ Val(tishrei1) = day + a + b
            /\ (Val(tishrei1) - day) \in {0, 1, 2}
            /\ day = Val(added).day
            /\ halakim = Val(added).halakim

\* the first day of a common year has been got from a Tuesday molad at or
\* after 9 hours 204 parts and before noon: it is two days after the molad
C12_Witness ==
    /\ pc = "resolved"
    /\ Val(metonicCycleYear) \notin LEAP_YEARS
    /\ day_of_week(Val(molad)) = TUESDAY
    /\ Val(molad).halakim >= AM3_11_20
    /\ Val(molad).halakim < NOON
    /\ Val(tishrei1) = Val(molad).day + 2

(***************************************************************************)
(* The calls that add cycles to a _Molad.                                  *)
(***************************************************************************)
Abs(n) == IF n < 0 THEN 0 - n ELSE n

\* molad.add_lunar_cycles(n)
AddLunarCycles(n) ==
    /\ pc = "molad"
    /\ Abs(Val(added).lunarCycles + n) <= MaxLunarSum
    /\ molad' = Some(add_lunar_cycles(Val(molad), n))
    /\ added' = Some([Val(added) EXCEPT !.lunarCycles = @ + n])
    /\ UNCHANGED <<pc, metonicCycleYear, tishrei1, inputDay, found>>
    /\ UNCHANGED dateVars

\* molad.add_metonic_cycles(n)
AddMetonicCycles(n) ==
    /\ pc = "molad"
    /\ Abs(Val(added).metonicCycles + n) <= MaxMetonicSum
    /\ molad' = Some(add_metonic_cycles(Val(molad), n))
    /\ added' = Some([Val(added) EXCEPT !.metonicCycles = @ + n])
    /\ UNCHANGED <<pc, metonicCycleYear, tishrei1, inputDay, found>>
    /\ UNCHANGED dateVars

\* the arguments a _Molad is made with: halakim of less than none, of a day
\* and more, and the new moon of creation, which is more than a day
AddDays == {0 - MoladDays, 0, MoladDays}
AddHalakim ==
    {0 - HALAKIM_PER_DAY - 1, 0 - 1, 0, HALAKIM_PER_DAY - 1, HALAKIM_PER_DAY,
     NEW_MOON_OF_CREATION}

NextAdd ==
    \/ \E day \in AddDays, halakim \in AddHalakim : NewMolad(day, halakim)
    \/ \E n \in (0 - MaxCycles)..MaxCycles : AddLunarCycles(n)
    \/ \E n \in (0 - MaxCycles)..MaxCycles : AddMetonicCycles(n)

SpecAdd == Init /\ [][NextAdd]_vars

\* C13: after _Molad(day, halakim) and any sequence of add_lunar_cycles(n)
\* and add_metonic_cycles(n) with n positive, zero or negative, the
\* accumulator has 0 <= halakim < 25920 and is (T div 25920, T mod 25920),
\* floored, where T is day * 25920 + halakim of the constructor plus 765433
\* for every lunar cycle and 765433 * 235 for every metonic cycle added.
C13_Normalized ==
    molad # None =>
        LET T == Val(added).day * 25920 + Val(added).halakim
                     + Val(added).lunarCycles * 765433
                     + Val(added).metonicCycles * (765433 * 235)
        IN  /\ 0 <= Val(molad).halakim
            /\ Val(molad).halakim < 25920
            /\ Val(molad).day = T \div 25920
            /\ Val(molad).halakim = T % 25920

\* lunar cycles have been taken from a _Molad made with more than a day of
\* halakim, metonic cycles added or taken too, and it stands before day 0
C13_Witness ==
    /\ pc = "molad"
    /\ Val(added).halakim >= HALAKIM_PER_DAY
    /\ Val(added).lunarCycles < 0
    /\ Val(added).metonicCycles # 0
    /\ Val(molad).day < 0
    /\ Val(molad).halakim > 0

(***************************************************************************)
(* The search for the molad of Tishrei near a day.                         *)
(***************************************************************************)
\* _find_nearby_tishrei_molad(d)
FindNearbyTishreiMolad(d) ==
    /\ pc = "idle"
    /\ inputDay' = Some(d)
    /\ found' = Some(find_nearby_tishrei_molad(d))
    /\ pc' = "searched"
    /\ UNCHANGED <<molad, added, metonicCycleYear, tishrei1>>
    /\ UNCHANGED dateVars

\* the days the search is called with: from_sdn's, those of the years of the
\* model, from day 1 on
SearchDays ==
    {s - JEWISH_SDN_OFFSET : s \in {t \in SdnInputs : t > JEWISH_SDN_OFFSET}}

NextSearch == \E d \in SearchDays : FindNearbyTishreiMolad(d)

SpecSearch == Init /\ [][NextSearch]_vars

\* day d is a day of year y
InYear(y, d) == YearEnds(y).tishrei1 <= d /\ d < YearEnds(y).nextTishrei1

\* the days of year y before its Kislev and before its Tevet
DaysToKislev(y) == MonthLength(y, TISHREI) + MonthLength(y, CHESHVAN)
DaysToTevet(y) == DaysToKislev(y) + MonthLength(y, KISLEV)

\* C14: for every day d >= 1, _find_nearby_tishrei_molad(d) returns
\* (cycle, position, lunation) with position in 0..18 such that, for
\* Y = 19 * cycle + position + 1, the lunation is the one
\* _find_start_of_year(Y) computes, and Y is the year of d when d is in
\* Tishrei or Cheshvan, the year after when d is in Tevet..Elul, and either
\* of the two when d is in Kislev.
C14_NearbyMolad ==
    pc = "searched" =>
        LET d == Val(inputDay)
            r == Val(found)
            Y == 19 * r.metonicCycle + r.metonicYear + 1
        IN  /\ r.metonicYear \in 0..18
            /\ Y >= 1
            /\ r.molad = find_start_of_year(Y).molad
            /\ \/ /\ InYear(Y, d)
                  /\ d - YearEnds(Y).tishrei1 < DaysToTevet(Y)
               \/ /\ Y > 1
                  /\ InYear(Y - 1, d)
                  /\ d - YearEnds(Y - 1).tishrei1 >= DaysToKislev(Y - 1)

\* the search has been made from a day of Tevet or later of a year in the
\* last position of its cycle, and has gone on to the next cycle
C14_Witness ==
    /\ pc = "searched"
    /\ Val(found).metonicYear = 0
    /\ Val(found).metonicCycle > 0
    /\ InYear(19 * Val(found).metonicCycle, Val(inputDay))
    /\ Val(inputDay) - YearEnds(19 * Val(found).metonicCycle).tishrei1
           >= DaysToTevet(19 * Val(found).metonicCycle)

=============================================================================
